---------------------------- MODULE Spec2Model ----------------------------
(***************************************************************************)
(* A model of the low-latency trading core: the bounded SPSC ring          *)
(* (LockFreeQueue), the market-data handler, the order manager with its    *)
(* risk manager, and the AdvancedRiskManager with its volatility           *)
(* calculator.                                                             *)
(*                                                                         *)
(* Threads are modelled at the granularity of their atomic loads and       *)
(* stores on head_ and tail_; a mutex-protected method is one step.        *)
(* Doubles are modelled in fixed point (see the risk section).             *)
(***************************************************************************)
EXTENDS Integers, Sequences, FiniteSets, TLC

(***************************************************************************)
(* Bounds of the model.                                                    *)
(***************************************************************************)
\* push calls made by the producer of the stand-alone queue
MaxPush == 6
\* on_quote calls made by the feed thread
MaxQuotes == 5
\* submit_order calls made by the submitting thread
MaxOrders == 4
\* update_position calls applied to one risk engine
MaxTrades == 3
\* calls of MarketMaker::update_quotes
MaxUpdates == 2

(***************************************************************************)
(* LockFreeQueue<T>.  QUEUE_SIZE is 1024 in the source; the ring is scaled *)
(* down here, every index computation stays modulo QUEUE_SIZE.             *)
(***************************************************************************)
QUEUE_SIZE == 4

\* a default-constructed slot of buffer_
NoItem == 0

Slots == 0 .. (QUEUE_SIZE - 1)

\* the queue as constructed: head_{0}, tail_{0}
NewQueue == [buffer_ |-> [i \in Slots |-> NoItem], head_ |-> 0, tail_ |-> 0]

\* the items between head_ and tail_, oldest first
RECURSIVE RingItems(_, _, _)
RingItems(buffer, from, to) ==
    IF from = to THEN << >>
    ELSE << buffer[from] >> \o RingItems(buffer, (from + 1) % QUEUE_SIZE, to)

QueueContents(q) == RingItems(q.buffer_, q.head_, q.tail_)

IsPrefix(s, t) == Len(s) <= Len(t) /\ SubSeq(t, 1, Len(s)) = s

(*------------------------------ push ------------------------------------*)
\* size_t current_tail = tail_.load(relaxed); next_tail = (current_tail+1) % QUEUE_SIZE
push_load_tail(q, t) ==
    [q |-> q,
     t |-> [t EXCEPT !.current_tail = q.tail_,
                     !.next_tail = (q.tail_ + 1) % QUEUE_SIZE,
                     !.pc = "push_load_head"]]

\* mutant: the full test is made one slot early
push_load_head_early(q, t) ==
    IF (t.next_tail + 1) % QUEUE_SIZE = q.head_ \/ t.next_tail = q.head_
    THEN [q |-> q, t |-> [t EXCEPT !.pc = "push_done", !.ret = FALSE]]
    ELSE [q |-> q, t |-> [t EXCEPT !.pc = "push_write"]]

\* if (next_tail == head_.load(acquire)) return false;
push_load_head(q, t) ==
    IF t.next_tail = q.head_
    THEN [q |-> q, t |-> [t EXCEPT !.pc = "push_done", !.ret = FALSE]]
    ELSE [q |-> q, t |-> [t EXCEPT !.pc = "push_write"]]

\* mutant: the slot is not written before the tail is released
push_write_skipped(q, t) ==
    [q |-> q, t |-> [t EXCEPT !.pc = "push_store_tail"]]

\* buffer_[current_tail] = item;
push_write(q, t) ==
    [q |-> [q EXCEPT !.buffer_[t.current_tail] = t.item],
     t |-> [t EXCEPT !.pc = "push_store_tail"]]

\* tail_.store(next_tail, release); return true;
push_store_tail(q, t) ==
    [q |-> [q EXCEPT !.tail_ = t.next_tail],
     t |-> [t EXCEPT !.pc = "push_done", !.ret = TRUE]]

PushPcs == {"push_load_tail", "push_load_head", "push_write", "push_store_tail"}

\* one atomic step of a thread that is inside push
push_step(q, t) ==
    CASE t.pc = "push_load_tail"  -> push_load_tail(q, t)
      [] t.pc = "push_load_head"  -> push_load_head(q, t)
      [] t.pc = "push_write"      -> push_write(q, t)
      [] t.pc = "push_store_tail" -> push_store_tail(q, t)

(*------------------------------- pop ------------------------------------*)
\* size_t current_head = head_.load(relaxed);
pop_load_head(q, t) ==
    [q |-> q, t |-> [t EXCEPT !.current_head = q.head_, !.pc = "pop_load_tail"]]

\* if (current_head == tail_.load(acquire)) return false;
pop_load_tail(q, t) ==
    IF t.current_head = q.tail_
    THEN [q |-> q, t |-> [t EXCEPT !.pc = "pop_done", !.ret = FALSE]]
    ELSE [q |-> q, t |-> [t EXCEPT !.pc = "pop_read"]]

\* item = buffer_[current_head];
pop_read(q, t) ==
    [q |-> q, t |-> [t EXCEPT !.item = q.buffer_[t.current_head],
                              !.pc = "pop_store_head"]]

\* mutant: the head is not advanced
pop_store_head_stuck(q, t) ==
    [q |-> q, t |-> [t EXCEPT !.pc = "pop_done", !.ret = TRUE]]

\* head_.store((current_head + 1) % QUEUE_SIZE, release); return true;
pop_store_head(q, t) ==
    [q |-> [q EXCEPT !.head_ = (t.current_head + 1) % QUEUE_SIZE],
     t |-> [t EXCEPT !.pc = "pop_done", !.ret = TRUE]]

PopPcs == {"pop_load_head", "pop_load_tail", "pop_read", "pop_store_head"}

\* one atomic step of a thread that is inside pop
pop_step(q, t) ==
    CASE t.pc = "pop_load_head"  -> pop_load_head(q, t)
      [] t.pc = "pop_load_tail"  -> pop_load_tail(q, t)
      [] t.pc = "pop_read"       -> pop_read(q, t)
      [] t.pc = "pop_store_head" -> pop_store_head(q, t)

(***************************************************************************)
(* State.                                                                  *)
(***************************************************************************)
VARIABLES
    \* a LockFreeQueue with one producer and one consumer thread
    queue, producer, consumer,
    \* history: values accepted by push, values returned by pop, in order
    pushed, popped,
    \* history: push calls made, push calls that returned false, and the
    \* number of queued items when the last push loaded head_
    offered, rejected, occ_at_check

qvars == << queue, producer, consumer, pushed, popped, offered, rejected,
            occ_at_check >>

(***************************************************************************)
(* The stand-alone queue: one producer thread calling push, one consumer   *)
(* thread calling pop.                                                     *)
(***************************************************************************)
NewProducer == [pc |-> "idle", item |-> NoItem, current_tail |-> 0,
                next_tail |-> 0, ret |-> FALSE]

NewConsumer == [pc |-> "idle", item |-> NoItem, current_head |-> 0,
                ret |-> FALSE]

InitQueue ==
    /\ queue = NewQueue
    /\ producer = NewProducer
    /\ consumer = NewConsumer
    /\ pushed = << >>
    /\ popped = << >>
    /\ offered = 0
    /\ rejected = 0
    /\ occ_at_check = 0

\* the producer thread calls push(item) with the next value
Q_push_call ==
    /\ producer.pc = "idle"
    /\ offered < MaxPush
    /\ offered' = offered + 1
    /\ producer' = [producer EXCEPT !.pc = "push_load_tail", !.item = offered + 1]
    /\ UNCHANGED << queue, consumer, pushed, popped, rejected, occ_at_check >>

\* the producer thread takes one step of push; on return the history is updated
Q_push_step ==
    /\ producer.pc \in PushPcs
    /\ LET r == push_step(queue, producer)
           done == r.t.pc = "push_done"
       IN /\ queue' = r.q
          /\ producer' = IF done THEN [r.t EXCEPT !.pc = "idle"] ELSE r.t
          /\ pushed' = IF done /\ r.t.ret THEN Append(pushed, producer.item)
                       ELSE pushed
          /\ rejected' = IF done /\ ~r.t.ret THEN rejected + 1 ELSE rejected
          /\ occ_at_check' = IF producer.pc = "push_load_head"
                             THEN Len(pushed) - Len(popped) ELSE occ_at_check
    /\ UNCHANGED << consumer, popped, offered >>

\* the consumer thread calls pop(item)
Q_pop_call ==
    /\ consumer.pc = "idle"
    /\ consumer' = [consumer EXCEPT !.pc = "pop_load_head"]
    /\ UNCHANGED << queue, producer, pushed, popped, offered, rejected,
                    occ_at_check >>

\* the consumer thread takes one step of pop; on return the history is updated
Q_pop_step ==
    /\ consumer.pc \in PopPcs
    /\ LET r == pop_step(queue, consumer)
           done == r.t.pc = "pop_done"
       IN /\ queue' = r.q
          /\ consumer' = IF done THEN [r.t EXCEPT !.pc = "idle"] ELSE r.t
          /\ popped' = IF done /\ r.t.ret THEN Append(popped, r.t.item)
                       ELSE popped
    /\ UNCHANGED << producer, pushed, offered, rejected, occ_at_check >>

Min(a, b) == IF a <= b THEN a ELSE b

\* C1: with one producer and one consumer, under every interleaving of their
\* atomic steps, the values returned by successful pops are a prefix of the
\* values accepted by successful pushes (same order, no duplicates), and every
\* accepted value that was not popped yet is still queued (nothing is lost
\* except what push refused with false).
C1_SpscFifo ==
    /\ IsPrefix(popped, pushed)
    /\ QueueContents(queue) = SubSeq(pushed, Len(popped) + 1, Len(pushed))
    /\ \A i, j \in 1 .. Len(popped) : i # j => popped[i] # popped[j]

\* the ring wrapped around while pushes were refused and both threads were
\* in the middle of an operation
C1_Witness ==
    /\ Len(popped) >= QUEUE_SIZE - 1
    /\ rejected >= 1
    /\ producer.pc = "push_store_tail"
    /\ consumer.pc = "pop_store_head"

\* C2 as stated: a queue of capacity N = QUEUE_SIZE that is not popped accepts
\* its first N pushes and refuses the (N+1)-th.
C2_FullAfterQueueSizePushes ==
    (Len(popped) = 0 /\ producer.pc = "idle")
        => Len(pushed) = Min(offered, QUEUE_SIZE)

\* C2 amended: one slot of the ring stays empty.  A queue that is not popped
\* accepts its first QUEUE_SIZE - 1 pushes and refuses every later one; a
\* push is refused exactly when QUEUE_SIZE - 1 items were queued as it
\* loaded head_, so after one pop exactly one further push succeeds; and the
\* items are popped in FIFO order.
C2_FullAfterQueueSizeMinusOnePushes ==
    /\ (Len(popped) = 0 /\ producer.pc = "idle")
           => Len(pushed) = Min(offered, QUEUE_SIZE - 1)
    /\ (producer.pc = "idle" /\ offered > 0)
           => (producer.ret <=> occ_at_check < QUEUE_SIZE - 1)
    /\ Len(pushed) - Len(popped) <= QUEUE_SIZE - 1
    /\ IsPrefix(popped, pushed)

\* the queue was filled, a push was refused, one item was popped, exactly one
\* further push succeeded and the next one was refused again
C2_Witness ==
    /\ Len(popped) = 1
    /\ popped[1] = 1
    /\ Len(pushed) = QUEUE_SIZE
    /\ rejected = 2
    /\ offered = QUEUE_SIZE + 2
    /\ producer.pc = "idle"

(***************************************************************************)
(* Market data.  A Quote carries its symbol, bid, ask and timestamp; the   *)
(* timestamp is the arrival number, which tells two quotes apart.          *)
(***************************************************************************)
Symbols == {"AAPL", "GOOGL"}

\* the quotes the feed may deliver as its n-th quote
FeedQuotes(n) ==
    { [symbol |-> "AAPL", bid |-> 9999, ask |-> 10001, timestamp |-> n],
      [symbol |-> "GOOGL", bid |-> 10201, ask |-> 10203, timestamp |-> n] }

VARIABLES
    \* MarketDataHandler: quote_queue_, order_books_, processing_thread_, running_
    md,
    \* the thread that calls on_quote (with, as history, what running_ was
    \* when its call began), the worker thread of start(), and the thread
    \* that calls start() and stop()
    feed, md_worker, md_ctl,
    \* history: on_quote calls made, quotes accepted by the queue (in order),
    \* quotes refused by a full queue
    quotes_offered, quotes_accepted, quotes_dropped,
    \* history: quotes handed to process_quote, quotes handed to
    \* OrderBook::update, and the calls of MarketMaker::update_quotes
    quotes_processed, book_updates, update_quotes_log

mdvars == << md, feed, md_worker, md_ctl, quotes_offered, quotes_accepted,
             quotes_dropped, quotes_processed, book_updates,
             update_quotes_log >>

\* an unordered_map with no entry
EmptyMap == [k \in {} |-> 0]

\* MarketDataHandler as constructed: running_{true}, no thread, no book
NewMarketDataHandler ==
    [quote_queue_ |-> NewQueue,
     order_books_ |-> EmptyMap,
     processing_thread_ |-> "none",
     running_ |-> TRUE]

InitMD ==
    /\ md = NewMarketDataHandler
    /\ feed = [NewProducer EXCEPT !.pc = "idle"]
                  @@ [returned |-> "none", running_at_call |-> TRUE]
    /\ md_worker = [NewConsumer EXCEPT !.pc = "none"]
    /\ md_ctl = "idle"
    /\ quotes_offered = 0
    /\ quotes_accepted = << >>
    /\ quotes_dropped = 0
    /\ quotes_processed = << >>
    /\ book_updates = << >>
    /\ update_quotes_log = << >>

\* OrderBook::update(quote): takes book_mutex_ and changes nothing
OrderBook_update(book, quote) == book

\* MarketDataHandler::process_quote: the book of the symbol is updated when
\* order_books_ holds one; nothing else is called
process_quote(h, quote) ==
    IF quote.symbol \in DOMAIN h.order_books_
    THEN [h |-> [h EXCEPT !.order_books_[quote.symbol] =
                              OrderBook_update(@, quote)],
          book_updated |-> TRUE]
    ELSE [h |-> h, book_updated |-> FALSE]

\* MarketDataHandler::start(): spawns the worker thread
MD_start ==
    /\ md_ctl = "idle"
    /\ md.processing_thread_ = "none"
    /\ md' = [md EXCEPT !.processing_thread_ = "joinable"]
    /\ md_worker' = [md_worker EXCEPT !.pc = "loop"]
    /\ UNCHANGED << feed, md_ctl, quotes_offered, quotes_accepted,
                    quotes_dropped, quotes_processed, book_updates,
                    update_quotes_log >>

\* MarketDataHandler::stop(): running_ = false; then join() if joinable
MD_stop_call ==
    /\ md_ctl = "idle"
    /\ md' = [md EXCEPT !.running_ = FALSE]
    /\ md_ctl' = IF md.processing_thread_ = "joinable" THEN "joining" ELSE "idle"
    /\ UNCHANGED << feed, md_worker, quotes_offered, quotes_accepted,
                    quotes_dropped, quotes_processed, book_updates,
                    update_quotes_log >>

\* processing_thread_.join() returns once the worker has left its loop
MD_stop_join ==
    /\ md_ctl = "joining"
    /\ md_worker.pc = "exited"
    /\ md' = [md EXCEPT !.processing_thread_ = "joined"]
    /\ md_ctl' = "idle"
    /\ UNCHANGED << feed, md_worker, quotes_offered, quotes_accepted,
                    quotes_dropped, quotes_processed, book_updates,
                    update_quotes_log >>

\* MarketDataHandler::on_quote(quote) is called by the feed thread
MD_on_quote_call ==
    /\ feed.pc = "idle"
    /\ quotes_offered < MaxQuotes
    /\ \E quote \in FeedQuotes(quotes_offered + 1) :
          feed' = [feed EXCEPT !.pc = "push_load_tail", !.item = quote,
                               !.returned = "none",
                               !.running_at_call = md.running_]
    /\ quotes_offered' = quotes_offered + 1
    /\ UNCHANGED << md, md_worker, md_ctl, quotes_accepted, quotes_dropped,
                    quotes_processed, book_updates, update_quotes_log >>

\* on_quote: quote_queue_.push(quote); the result of push is discarded and
\* on_quote returns void
MD_on_quote_step ==
    /\ feed.pc \in PushPcs
    /\ LET r == push_step(md.quote_queue_, feed)
           done == r.t.pc = "push_done"
       IN /\ md' = [md EXCEPT !.quote_queue_ = r.q]
          /\ feed' = IF done THEN [r.t EXCEPT !.pc = "idle", !.returned = "void"]
                     ELSE r.t
          /\ quotes_accepted' = IF done /\ r.t.ret
                                THEN Append(quotes_accepted, feed.item)
                                ELSE quotes_accepted
          /\ quotes_dropped' = IF done /\ ~r.t.ret THEN quotes_dropped + 1
                               ELSE quotes_dropped
    /\ UNCHANGED << md_worker, md_ctl, quotes_offered, quotes_processed,
                    book_updates, update_quotes_log >>

\* mutant: the worker never reads running_
MD_worker_loop_ignores_flag ==
    /\ md_worker.pc = "loop"
    /\ md_worker' = [md_worker EXCEPT !.pc = "pop_load_head", !.item = NoItem]
    /\ UNCHANGED << md, feed, md_ctl, quotes_offered, quotes_accepted,
                    quotes_dropped, quotes_processed, book_updates,
                    update_quotes_log >>

\* the worker: while (running_) { Quote quote; if (quote_queue_.pop(quote)) ...
MD_worker_loop ==
    /\ md_worker.pc = "loop"
    /\ md_worker' = IF md.running_
                    THEN [md_worker EXCEPT !.pc = "pop_load_head", !.item = NoItem]
                    ELSE [md_worker EXCEPT !.pc = "exited"]
    /\ UNCHANGED << md, feed, md_ctl, quotes_offered, quotes_accepted,
                    quotes_dropped, quotes_processed, book_updates,
                    update_quotes_log >>

\* the worker inside quote_queue_.pop(quote)
MD_worker_pop ==
    /\ md_worker.pc \in PopPcs
    /\ LET r == pop_step(md.quote_queue_, md_worker)
           done == r.t.pc = "pop_done"
       IN /\ md' = [md EXCEPT !.quote_queue_ = r.q]
          /\ md_worker' = IF ~done THEN r.t
                          ELSE IF r.t.ret THEN [r.t EXCEPT !.pc = "process"]
                          ELSE [r.t EXCEPT !.pc = "loop"]
    /\ UNCHANGED << feed, md_ctl, quotes_offered, quotes_accepted,
                    quotes_dropped, quotes_processed, book_updates,
                    update_quotes_log >>

\* the worker: process_quote(quote)
MD_worker_process ==
    /\ md_worker.pc = "process"
    /\ LET r == process_quote(md, md_worker.item)
       IN /\ md' = r.h
          /\ book_updates' = IF r.book_updated
                             THEN Append(book_updates, md_worker.item)
                             ELSE book_updates
    /\ quotes_processed' = Append(quotes_processed, md_worker.item)
    /\ md_worker' = [md_worker EXCEPT !.pc = "loop"]
    /\ UNCHANGED << feed, md_ctl, quotes_offered, quotes_accepted,
                    quotes_dropped, update_quotes_log >>

(***************************************************************************)
(* RiskManager and OrderManager.  An Order carries order_id, symbol,       *)
(* price, quantity and is_buy; the caller gives its n-th order the id n.   *)
(***************************************************************************)
\* fills applied to the RiskManager
MaxFills == 1

\* the orders the submitting thread may pass as its n-th order
OrderChoices(n) ==
    { [order_id |-> n, symbol |-> "AAPL", price |-> 10000, quantity |-> 20,
       is_buy |-> TRUE],
      [order_id |-> n, symbol |-> "GOOGL", price |-> 10203, quantity |-> 20,
       is_buy |-> FALSE] }

\* the limits a symbol may be configured with (RiskManager::PositionLimit)
PositionLimitChoices == { [max_position |-> 100, max_dollar_exposure |-> 1000000] }

\* the fills that may be applied to the positions of the RiskManager
FillChoices ==
    { [symbol |-> "AAPL", quantity |-> 90, is_buy |-> TRUE],
      [symbol |-> "GOOGL", quantity |-> 90, is_buy |-> FALSE] }

Abs(x) == IF x < 0 THEN -x ELSE x

\* m[k] = v, the entry being created when m has none
MapPut(m, k, v) == [x \in DOMAIN m \cup {k} |-> IF x = k THEN v ELSE m[x]]

\* m[k] of an unordered_map<string, double>: a missing entry reads as 0.0
MapGet(m, k) == IF k \in DOMAIN m THEN m[k] ELSE 0

VARIABLES
    \* RiskManager: position_limits_, current_positions_
    rm,
    \* OrderManager: order_queue_, processing_thread_, running_
    om,
    \* the thread that calls submit_order, the worker thread of start(), and
    \* the thread that calls start() and stop()
    submitter, om_worker, om_ctl,
    \* history: submit_order calls made, what check_order answered for each
    \* order id, orders accepted by the queue (in order), orders refused by
    \* a full queue, orders handed to process_order (in order), fills applied
    orders_submitted, risk_log, orders_enqueued, orders_dropped,
    orders_forwarded, rm_fills

omvars == << rm, om, submitter, om_worker, om_ctl, orders_submitted, risk_log,
             orders_enqueued, orders_dropped, orders_forwarded, rm_fills >>

\* RiskManager as constructed: both maps empty
NewRiskManager == [position_limits_ |-> EmptyMap, current_positions_ |-> EmptyMap]

\* OrderManager as constructed: running_{true}, no thread
NewOrderManager ==
    [order_queue_ |-> NewQueue, processing_thread_ |-> "none", running_ |-> TRUE]

InitOM ==
    /\ rm = NewRiskManager
    /\ om = NewOrderManager
    /\ submitter = NewProducer @@ [order |-> NoItem, returned |-> "none"]
    /\ om_worker = [NewConsumer EXCEPT !.pc = "none"]
    /\ om_ctl = "idle"
    /\ orders_submitted = 0
    /\ risk_log = EmptyMap
    /\ orders_enqueued = << >>
    /\ orders_dropped = 0
    /\ orders_forwarded = << >>
    /\ rm_fills = 0

\* RiskManager::check_order, one step under position_mutex_
RiskManager_check_order(r, order) ==
    IF order.symbol \notin DOMAIN r.position_limits_
    THEN [r |-> r, ret |-> FALSE]
    ELSE LET \* current_positions_[order.symbol] creates a missing entry
             cur == MapGet(r.current_positions_, order.symbol)
             new_position == IF order.is_buy THEN cur + order.quantity
                             ELSE cur - order.quantity
         IN [r |-> [r EXCEPT !.current_positions_ = MapPut(@, order.symbol, cur)],
             ret |-> Abs(new_position)
                        <= r.position_limits_[order.symbol].max_position]

\* the risk engine's set_risk_limits(symbol, limits)
RiskManager_set_risk_limits(r, symbol, limits) ==
    [r EXCEPT !.position_limits_ = MapPut(@, symbol, limits)]

\* the risk engine's update_position(symbol, trade): position by signed quantity
RiskManager_update_position(r, symbol, trade) ==
    [r EXCEPT !.current_positions_ =
        MapPut(@, symbol, MapGet(@, symbol)
                 + (IF trade.is_buy THEN trade.quantity ELSE -trade.quantity))]

RM_set_risk_limits ==
    /\ \E symbol \in Symbols, limits \in PositionLimitChoices :
          rm' = RiskManager_set_risk_limits(rm, symbol, limits)
    /\ UNCHANGED << om, submitter, om_worker, om_ctl, orders_submitted,
                    risk_log, orders_enqueued, orders_dropped,
                    orders_forwarded, rm_fills >>

RM_update_position ==
    /\ rm_fills < MaxFills
    /\ \E trade \in FillChoices :
          rm' = RiskManager_update_position(rm, trade.symbol, trade)
    /\ rm_fills' = rm_fills + 1
    /\ UNCHANGED << om, submitter, om_worker, om_ctl, orders_submitted,
                    risk_log, orders_enqueued, orders_dropped,
                    orders_forwarded >>

\* OrderManager::start(): spawns the worker thread
OM_start ==
    /\ om_ctl = "idle"
    /\ om.processing_thread_ = "none"
    /\ om' = [om EXCEPT !.processing_thread_ = "joinable"]
    /\ om_worker' = [om_worker EXCEPT !.pc = "loop"]
    /\ UNCHANGED << rm, submitter, om_ctl, orders_submitted, risk_log,
                    orders_enqueued, orders_dropped, orders_forwarded,
                    rm_fills >>

\* OrderManager::stop(): running_ = false; then join() if joinable
OM_stop_call ==
    /\ om_ctl = "idle"
    /\ om' = [om EXCEPT !.running_ = FALSE]
    /\ om_ctl' = IF om.processing_thread_ = "joinable" THEN "joining" ELSE "idle"
    /\ UNCHANGED << rm, submitter, om_worker, orders_submitted, risk_log,
                    orders_enqueued, orders_dropped, orders_forwarded,
                    rm_fills >>

\* processing_thread_.join() returns once the worker has left its loop
OM_stop_join ==
    /\ om_ctl = "joining"
    /\ om_worker.pc = "exited"
    /\ om' = [om EXCEPT !.processing_thread_ = "joined"]
    /\ om_ctl' = "idle"
    /\ UNCHANGED << rm, submitter, om_worker, orders_submitted, risk_log,
                    orders_enqueued, orders_dropped, orders_forwarded,
                    rm_fills >>

\* OrderManager::submit_order(order) is called by the submitting thread
OM_submit_call ==
    /\ submitter.pc = "idle"
    /\ orders_submitted < MaxOrders
    /\ \E order \in OrderChoices(orders_submitted + 1) :
          submitter' = [submitter EXCEPT !.pc = "check_order", !.order = order,
                                         !.returned = "none"]
    /\ orders_submitted' = orders_submitted + 1
    /\ UNCHANGED << rm, om, om_worker, om_ctl, risk_log, orders_enqueued,
                    orders_dropped, orders_forwarded, rm_fills >>

\* mutant: the order is pushed whatever check_order answered
submit_order_unchecked(t, ok) ==
    [t EXCEPT !.pc = "push_load_tail", !.item = t.order]

\* submit_order: if (risk_manager_.check_order(order)) order_queue_.push(order);
\* a rejected order makes submit_order return (void)
submit_order(t, ok) ==
    IF ok THEN [t EXCEPT !.pc = "push_load_tail", !.item = t.order]
    ELSE [t EXCEPT !.pc = "idle", !.returned = "void"]

\* submit_order calls risk_manager_.check_order(order)
OM_submit_check ==
    /\ submitter.pc = "check_order"
    /\ LET c == RiskManager_check_order(rm, submitter.order)
       IN /\ rm' = c.r
          /\ submitter' = submit_order(submitter, c.ret)
          /\ risk_log' = MapPut(risk_log, submitter.order.order_id,
                [ret |-> c.ret,
                 order |-> submitter.order,
                 position |-> MapGet(rm.current_positions_, submitter.order.symbol),
                 configured |-> submitter.order.symbol \in DOMAIN rm.position_limits_,
                 max_position |->
                    IF submitter.order.symbol \in DOMAIN rm.position_limits_
                    THEN rm.position_limits_[submitter.order.symbol].max_position
                    ELSE 0])
    /\ UNCHANGED << om, om_worker, om_ctl, orders_submitted, orders_enqueued,
                    orders_dropped, orders_forwarded, rm_fills >>

\* submit_order inside order_queue_.push(order); the result of push is
\* discarded and submit_order returns void
OM_submit_push ==
    /\ submitter.pc \in PushPcs
    /\ LET r == push_step(om.order_queue_, submitter)
           done == r.t.pc = "push_done"
       IN /\ om' = [om EXCEPT !.order_queue_ = r.q]
          /\ submitter' = IF done
                          THEN [r.t EXCEPT !.pc = "idle", !.returned = "void"]
                          ELSE r.t
          /\ orders_enqueued' = IF done /\ r.t.ret
                                THEN Append(orders_enqueued, submitter.item)
                                ELSE orders_enqueued
          /\ orders_dropped' = IF done /\ ~r.t.ret THEN orders_dropped + 1
                               ELSE orders_dropped
    /\ UNCHANGED << rm, om_worker, om_ctl, orders_submitted, risk_log,
                    orders_forwarded, rm_fills >>

\* the worker: while (running_) { Order order; if (order_queue_.pop(order)) ...
OM_worker_loop ==
    /\ om_worker.pc = "loop"
    /\ om_worker' = IF om.running_
                    THEN [om_worker EXCEPT !.pc = "pop_load_head", !.item = NoItem]
                    ELSE [om_worker EXCEPT !.pc = "exited"]
    /\ UNCHANGED << rm, om, submitter, om_ctl, orders_submitted, risk_log,
                    orders_enqueued, orders_dropped, orders_forwarded,
                    rm_fills >>

\* the worker inside order_queue_.pop(order)
OM_worker_pop ==
    /\ om_worker.pc \in PopPcs
    /\ LET r == pop_step(om.order_queue_, om_worker)
           done == r.t.pc = "pop_done"
       IN /\ om' = [om EXCEPT !.order_queue_ = r.q]
          /\ om_worker' = IF ~done THEN r.t
                          ELSE IF r.t.ret THEN [r.t EXCEPT !.pc = "process"]
                          ELSE [r.t EXCEPT !.pc = "loop"]
    /\ UNCHANGED << rm, submitter, om_ctl, orders_submitted, risk_log,
                    orders_enqueued, orders_dropped, orders_forwarded,
                    rm_fills >>

\* the worker: process_order(order), the execution boundary
OM_worker_process ==
    /\ om_worker.pc = "process"
    /\ orders_forwarded' = Append(orders_forwarded, om_worker.item)
    /\ om_worker' = [om_worker EXCEPT !.pc = "loop"]
    /\ UNCHANGED << rm, om, submitter, om_ctl, orders_submitted, risk_log,
                    orders_enqueued, orders_dropped, rm_fills >>

(***************************************************************************)
(* AdvancedRiskManager.  Doubles are fixed-point integers: prices and      *)
(* money in cents, log-returns and volatilities in thousandths, VaR and    *)
(* expected shortfall in millionths of a currency unit.  A double that may *)
(* be infinite or NaN (vwap, unrealized_pnl) is a record [cls, v].         *)
(***************************************************************************)
\* std::log of a trade price, in thousandths, relative to log(100.00)
LogMilli(price) == CASE price = 10000 -> 0
                     [] price = 10202 -> 20

\* the largest k with k * k <= n
RECURSIVE ISqrt(_)
ISqrt(n) ==
    IF n < 2 THEN n
    ELSE LET small == 2 * ISqrt(n \div 4)
         IN IF (small + 1) * (small + 1) > n THEN small ELSE small + 1

RECURSIVE SumSeq(_)
SumSeq(seq) == IF seq = << >> THEN 0 ELSE Head(seq) + SumSeq(Tail(seq))

RECURSIVE SumSqSeq(_)
SumSqSeq(seq) ==
    IF seq = << >> THEN 0 ELSE Head(seq) * Head(seq) + SumSqSeq(Tail(seq))

\* sqrt((sum_sq / n) - (mean * mean)) of a non-empty window of returns
StdDev(returns) ==
    LET n == Len(returns)
    IN ISqrt(n * SumSqSeq(returns) - SumSeq(returns) * SumSeq(returns)) \div n

(*------------------------- extended doubles -----------------------------*)
Fin(n) == [cls |-> "fin", v |-> n]
Inf(sign) == [cls |-> "inf", v |-> sign]
NaN == [cls |-> "nan", v |-> 0]

\* integer quotient rounded toward zero
TruncDiv(x, y) ==
    IF (x >= 0) = (y > 0) THEN Abs(x) \div Abs(y) ELSE -(Abs(x) \div Abs(y))

\* a * n for a finite n
XMulInt(a, n) ==
    CASE a.cls = "fin" -> Fin(a.v * n)
      [] a.cls = "inf" -> IF n = 0 THEN NaN
                          ELSE IF n > 0 THEN a ELSE Inf(-a.v)
      [] a.cls = "nan" -> NaN

\* a + n for a finite n
XAddInt(a, n) == IF a.cls = "fin" THEN Fin(a.v + n) ELSE a

\* n - a for a finite n
XIntSub(n, a) ==
    CASE a.cls = "fin" -> Fin(n - a.v)
      [] a.cls = "inf" -> Inf(-a.v)
      [] a.cls = "nan" -> NaN

\* a / n for a finite n; n = 0 is the double +0.0
XDivInt(a, n) ==
    CASE a.cls = "fin" /\ n # 0 -> Fin(TruncDiv(a.v, n))
      [] a.cls = "fin" /\ n = 0 -> IF a.v = 0 THEN NaN
                                   ELSE IF a.v > 0 THEN Inf(1) ELSE Inf(-1)
      [] a.cls = "inf" -> IF n >= 0 THEN a ELSE Inf(-a.v)
      [] a.cls = "nan" -> NaN

(*------------------------ VolatilityCalculator --------------------------*)
\* volatility_calculators_[symbol] value-initialises a missing entry: both
\* deques empty and window_size zero
NewVolatilityCalculator ==
    [price_history |-> << >>, returns |-> << >>, window_size |-> 0]

\* n > window_size - 1 in size_t: window_size - 1 wraps to SIZE_MAX at zero
ExceedsWindowMinusOne(n, window_size) == window_size > 0 /\ n > window_size - 1

\* VolatilityCalculator::update(price)
VolatilityCalculator_update(c, price) ==
    LET pushed_history == Append(c.price_history, price)
        history == IF Len(pushed_history) > c.window_size
                   THEN Tail(pushed_history) ELSE pushed_history
        ret == LogMilli(price) - LogMilli(history[Len(history) - 1])
        pushed_returns == Append(c.returns, ret)
    IN IF Len(history) > 1
       THEN [c EXCEPT !.price_history = history,
                      !.returns = IF ExceedsWindowMinusOne(Len(pushed_returns),
                                                           c.window_size)
                                  THEN Tail(pushed_returns) ELSE pushed_returns]
       ELSE [c EXCEPT !.price_history = history]

\* VolatilityCalculator::calculate_volatility(), in thousandths
calculate_volatility(c) ==
    IF Len(c.returns) < 2 THEN 0 ELSE StdDev(c.returns)

(*------------------------- AdvancedRiskManager --------------------------*)
\* recent_trades keeps the last 1000 trades in the source; scaled down here
RECENT_TRADES_MAX == 2

\* constexpr double confidence_95 = 1.645, in thousandths
CONFIDENCE_95 == 1645

\* return var * 1.2, in tenths
ES_FACTOR == 12

\* the trades the execution boundary may report
TradeChoices ==
    { [symbol |-> "AAPL", price |-> p, quantity |-> 500, is_buy |-> b] :
          p \in {10000, 10202}, b \in BOOLEAN }
    \cup { [symbol |-> "GOOGL", price |-> 10000, quantity |-> 500, is_buy |-> TRUE] }

\* the orders check_order may be asked about
CheckOrderChoices ==
    { [symbol |-> "AAPL", quantity |-> q, is_buy |-> b] :
          q \in {500, 1000}, b \in BOOLEAN }
    \cup { [symbol |-> "GOOGL", quantity |-> 500, is_buy |-> TRUE] }

\* the RiskLimits a symbol may be configured with, in currency units; only
\* the four fields that check_order reads are kept
RiskLimitChoices(symbol) ==
    IF symbol = "AAPL"
    THEN { [max_order_size |-> 1000, max_net_position |-> 1000,
            var_limit |-> 30, es_limit |-> 1000],
           [max_order_size |-> 1000, max_net_position |-> 1000,
            var_limit |-> 35, es_limit |-> 1000],
           [max_order_size |-> 500, max_net_position |-> 500,
            var_limit |-> 1000, es_limit |-> 39] }
    ELSE { [max_order_size |-> 1000, max_net_position |-> 1000,
            var_limit |-> 35, es_limit |-> 1000] }

VARIABLES
    \* AdvancedRiskManager: risk_metrics_, risk_limits_, positions_,
    \* volatility_calculators_
    arm,
    \* history: the trades applied by update_position, in order, and the last
    \* check_order call with what it was asked and what it answered
    trades_log, last_check,
    \* the orders check_order returned true for that have not been filled
    outstanding

riskvars == << arm, trades_log, last_check, outstanding >>

NewAdvancedRiskManager ==
    [risk_metrics_ |-> EmptyMap, risk_limits_ |-> EmptyMap,
     positions_ |-> EmptyMap, volatility_calculators_ |-> EmptyMap]

\* positions_[symbol] value-initialises a missing entry
NewPositionTracker ==
    [position |-> 0, vwap |-> Fin(0), realized_pnl |-> 0,
     unrealized_pnl |-> Fin(0), recent_trades |-> << >>]

\* risk_metrics_[symbol] value-initialises a missing entry
NewRiskMetrics ==
    [gross_position |-> 0, net_position |-> 0, dollar_exposure |-> 0,
     var_95 |-> 0, expected_shortfall |-> 0, max_drawdown |-> 0]

\* m[k] with the entry created from `fresh` when m has none
MapTouch(m, k, fresh) == IF k \in DOMAIN m THEN m ELSE MapPut(m, k, fresh)

\* the tracked position of a symbol; a symbol with no tracker has none
PositionOf(a, symbol) ==
    IF symbol \in DOMAIN a.positions_ THEN a.positions_[symbol].position ELSE 0

NoCheck == [valid |-> FALSE]

InitRisk ==
    /\ arm = NewAdvancedRiskManager
    /\ trades_log = << >>
    /\ last_check = NoCheck
    /\ outstanding = << >>

\* AdvancedRiskManager::set_risk_limits
set_risk_limits(a, symbol, limits) ==
    [a EXCEPT !.risk_limits_ = MapPut(@, symbol, limits)]

\* AdvancedRiskManager::calculate_var_95, in millionths; the calculator of
\* the symbol is created when missing
calculate_var_95(a, symbol, position) ==
    LET calcs == MapTouch(a.volatility_calculators_, symbol,
                          NewVolatilityCalculator)
        vol == calculate_volatility(calcs[symbol])
    IN [a |-> [a EXCEPT !.volatility_calculators_ = calcs],
        var |-> Abs(position) * vol * CONFIDENCE_95]

\* AdvancedRiskManager::calculate_expected_shortfall, in millionths
calculate_expected_shortfall(a, symbol, position) ==
    LET v == calculate_var_95(a, symbol, position)
    IN [a |-> v.a, es |-> (v.var * ES_FACTOR) \div 10]

\* mutant: a symbol without limits is let through
check_order_fail_open(a, order) == [a |-> a, ret |-> TRUE]

\* mutant: the order is applied with the wrong sign
check_order_wrong_sign(a, order) ==
    IF order.symbol \notin DOMAIN a.risk_limits_
    THEN [a |-> a, ret |-> FALSE]
    ELSE LET limits == a.risk_limits_[order.symbol]
             a1 == [a EXCEPT !.positions_ =
                        MapTouch(@, order.symbol, NewPositionTracker)]
             new_position ==
                 IF order.is_buy
                 THEN a1.positions_[order.symbol].position - order.quantity
                 ELSE a1.positions_[order.symbol].position + order.quantity
         IN [a |-> a1,
             ret |-> /\ order.quantity <= limits.max_order_size
                     /\ Abs(new_position) <= limits.max_net_position]

\* AdvancedRiskManager::check_order, one step under risk_mutex_
check_order(a, order) ==
    IF order.symbol \notin DOMAIN a.risk_limits_
    THEN [a |-> a, ret |-> FALSE]
    ELSE LET limits == a.risk_limits_[order.symbol]
             \* auto& position = positions_[order.symbol];
             a1 == [a EXCEPT !.positions_ =
                        MapTouch(@, order.symbol, NewPositionTracker)]
             position == a1.positions_[order.symbol]
             new_position ==
                 IF order.is_buy THEN position.position + order.quantity
                 ELSE position.position - order.quantity
             v == calculate_var_95(a1, order.symbol, new_position)
             e == calculate_expected_shortfall(v.a, order.symbol, new_position)
         IN IF order.quantity > limits.max_order_size
            THEN [a |-> a1, ret |-> FALSE]
            ELSE IF Abs(new_position) > limits.max_net_position
            THEN [a |-> a1, ret |-> FALSE]
            ELSE IF v.var > limits.var_limit * 1000000
            THEN [a |-> v.a, ret |-> FALSE]
            ELSE IF e.es > limits.es_limit * 1000000
            THEN [a |-> e.a, ret |-> FALSE]
            ELSE [a |-> e.a, ret |-> TRUE]

\* mutant: a sell is added to the position
update_position_sell_adds(a, symbol, trade) ==
    [a EXCEPT !.positions_ =
        MapPut(@, symbol,
               [MapTouch(@, symbol, NewPositionTracker)[symbol]
                   EXCEPT !.position = @ + trade.quantity])]

\* AdvancedRiskManager::update_position, one step under risk_mutex_
update_position(a, symbol, trade) ==
    LET old == MapTouch(a.positions_, symbol, NewPositionTracker)[symbol]
        old_metrics == MapTouch(a.risk_metrics_, symbol, NewRiskMetrics)[symbol]
        position == IF trade.is_buy THEN old.position + trade.quantity
                    ELSE old.position - trade.quantity
        old_value == XMulInt(old.vwap, position - trade.quantity)
        trade_value == trade.price * trade.quantity
        vwap == XDivInt(XAddInt(old_value, trade_value), position)
        unrealized_pnl == XMulInt(XIntSub(trade.price, vwap), position)
        pushed_trades == Append(old.recent_trades, trade)
        recent_trades == IF Len(pushed_trades) > RECENT_TRADES_MAX
                         THEN Tail(pushed_trades) ELSE pushed_trades
        calc == MapTouch(a.volatility_calculators_, symbol,
                         NewVolatilityCalculator)[symbol]
    IN [a EXCEPT
          !.positions_ = MapPut(@, symbol,
              [old EXCEPT !.position = position,
                          !.vwap = vwap,
                          !.unrealized_pnl = unrealized_pnl,
                          !.recent_trades = recent_trades]),
          !.risk_metrics_ = MapPut(@, symbol,
              [old_metrics EXCEPT !.gross_position = Abs(position),
                                  !.net_position = position,
                                  !.dollar_exposure = position * trade.price]),
          !.volatility_calculators_ = MapPut(@, symbol,
              VolatilityCalculator_update(calc, trade.price))]

\* the prices update_position fed to the calculator of a symbol, in order
RECURSIVE PricesFed(_, _)
PricesFed(log, symbol) ==
    IF log = << >> THEN << >>
    ELSE IF Head(log).symbol = symbol
         THEN << Head(log).price >> \o PricesFed(Tail(log), symbol)
         ELSE PricesFed(Tail(log), symbol)

\* the log-returns of a sequence of prices
LogReturns(prices) ==
    [i \in 1 .. (Len(prices) - 1) |-> LogMilli(prices[i + 1]) - LogMilli(prices[i])]

\* the volatility estimate the fed prices stand for: the standard deviation
\* of their log-returns, 0 with fewer than two returns (in thousandths)
FedVolatility(log, symbol) ==
    LET returns == LogReturns(PricesFed(log, symbol))
    IN IF Len(returns) < 2 THEN 0 ELSE StdDev(returns)

ARM_set_risk_limits ==
    /\ \E symbol \in Symbols : \E limits \in RiskLimitChoices(symbol) :
          arm' = set_risk_limits(arm, symbol, limits)
    /\ UNCHANGED << trades_log, last_check, outstanding >>

ARM_check_order ==
    /\ \E order \in CheckOrderChoices :
          LET c == check_order(arm, order)
          IN /\ arm' = c.a
             /\ last_check' =
                   [valid |-> TRUE, order |-> order, ret |-> c.ret,
                    configured |-> order.symbol \in DOMAIN arm.risk_limits_,
                    limits |-> IF order.symbol \in DOMAIN arm.risk_limits_
                               THEN arm.risk_limits_[order.symbol]
                               ELSE [max_order_size |-> 0, max_net_position |-> 0,
                                     var_limit |-> 0, es_limit |-> 0],
                    position |-> PositionOf(arm, order.symbol),
                    fed_volatility |-> FedVolatility(trades_log, order.symbol)]
    /\ UNCHANGED << trades_log, outstanding >>

ARM_update_position ==
    /\ Len(trades_log) < MaxTrades
    /\ \E trade \in TradeChoices :
          /\ arm' = update_position(arm, trade.symbol, trade)
          /\ trades_log' = Append(trades_log, trade)
    /\ UNCHANGED << last_check, outstanding >>

\* limits are configured for a symbol that has none yet
Fills_set_risk_limits ==
    /\ \E symbol \in Symbols \ DOMAIN arm.risk_limits_ :
          \E limits \in RiskLimitChoices(symbol) :
              arm' = set_risk_limits(arm, symbol, limits)
    /\ UNCHANGED << trades_log, last_check, outstanding >>

\* an order is sent out when check_order returns true for it
Fills_check_order ==
    /\ Len(outstanding) + Len(trades_log) < MaxTrades
    /\ \E order \in CheckOrderChoices :
          LET c == check_order(arm, order)
          IN /\ arm' = c.a
             /\ outstanding' = IF c.ret THEN Append(outstanding, order)
                                ELSE outstanding
    /\ UNCHANGED << trades_log, last_check >>

\* s without its element i
RemoveAt(s, i) == SubSeq(s, 1, i - 1) \o SubSeq(s, i + 1, Len(s))

\* the trade that fills an order in full
FullFill(order) ==
    [symbol |-> order.symbol, price |-> 10000,
     quantity |-> order.quantity, is_buy |-> order.is_buy]

\* an order that is out is filled in full, once, and the trade is reported
\* through update_position
Fills_update_position ==
    /\ \E i \in 1 .. Len(outstanding) :
          LET trade == FullFill(outstanding[i])
          IN /\ arm' = update_position(arm, trade.symbol, trade)
             /\ trades_log' = Append(trades_log, trade)
             /\ outstanding' = RemoveAt(outstanding, i)
    /\ UNCHANGED last_check

(***************************************************************************)
(* Claims about the risk engine.                                           *)
(***************************************************************************)
\* what check_order answered last, and what it was asked
LastCheckPositionAfter ==
    IF last_check.order.is_buy
    THEN last_check.position + last_check.order.quantity
    ELSE last_check.position - last_check.order.quantity

\* C3: check_order returns false whenever no limits are configured for the
\* symbol of the order, for every order size and side and whatever trades
\* update_position applied before; so does the check of the simple
\* RiskManager, whatever the position it holds
C3_FailClosedWithoutLimits ==
    /\ (last_check.valid /\ ~last_check.configured) => ~last_check.ret
    /\ \A order \in CheckOrderChoices :
          order.symbol \notin DOMAIN arm.risk_limits_
              => ~check_order(arm, order).ret
    /\ \A order \in OrderChoices(1), cur \in {-90, 0, 90} :
          ~RiskManager_check_order(
               [position_limits_ |-> EmptyMap,
                current_positions_ |-> MapPut(EmptyMap, order.symbol, cur)],
               order).ret

\* an order for AAPL was checked while only GOOGL had limits, after trades
\* had moved the AAPL position
C3_Witness ==
    /\ last_check.valid
    /\ ~last_check.configured
    /\ last_check.order.symbol = "AAPL"
    /\ last_check.position # 0
    /\ "GOOGL" \in DOMAIN arm.risk_limits_
    /\ Len(trades_log) >= 2

\* C4: for a symbol with limits check_order returns false exactly when the
\* quantity exceeds max_order_size, or |position after| exceeds
\* max_net_position, or VaR = |position after| * sigma * 1.645 exceeds
\* var_limit, or ES = 1.2 * VaR exceeds es_limit, sigma being the volatility
\* estimate of the trade prices fed by update_position
C4_CheckOrderRejectionRules ==
    (last_check.valid /\ last_check.configured) =>
        LET limits == last_check.limits
            var == Abs(LastCheckPositionAfter) * last_check.fed_volatility
                       * CONFIDENCE_95
            es == (var * ES_FACTOR) \div 10
        IN last_check.ret <=>
              ~ \/ last_check.order.quantity > limits.max_order_size
                \/ Abs(LastCheckPositionAfter) > limits.max_net_position
                \/ var > limits.var_limit * 1000000
                \/ es > limits.es_limit * 1000000

\* the net quantity of the trades applied for a symbol
RECURSIVE SignedSum(_, _)
SignedSum(log, symbol) ==
    IF log = << >> THEN 0
    ELSE (IF Head(log).symbol # symbol THEN 0
          ELSE IF Head(log).is_buy THEN Head(log).quantity
          ELSE -Head(log).quantity) + SignedSum(Tail(log), symbol)

\* C7: the tracked position of every symbol is the sum over the trades
\* applied for that symbol of +quantity for a buy and -quantity for a sell;
\* trades of another symbol do not move it
C7_PositionIsSignedSum ==
    \A symbol \in Symbols : PositionOf(arm, symbol) = SignedSum(trades_log, symbol)

\* buys and sells of both symbols were applied
C7_Witness ==
    /\ Len(trades_log) >= 3
    /\ PositionOf(arm, "AAPL") < 0
    /\ PositionOf(arm, "GOOGL") > 0

\* the positions a symbol may hold in the state compared with
PositionChoices == { k * 500 : k \in -3 .. 3 }

\* the engine with the position of one symbol replaced and all else equal
WithPosition(a, symbol, p) ==
    [a EXCEPT !.positions_ =
        MapPut(@, symbol,
               [MapTouch(@, symbol, NewPositionTracker)[symbol]
                   EXCEPT !.position = p])]

\* C8 as stated: an order refused in this state is refused in every state
\* with the same limits and a strictly greater |position| of its symbol,
\* whatever the sign of that position
C8_RiskMonotoneAnySign ==
    \A order \in CheckOrderChoices, p \in PositionChoices :
        (/\ Abs(p) > Abs(PositionOf(arm, order.symbol))
         /\ ~check_order(arm, order).ret)
            => ~check_order(WithPosition(arm, order.symbol, p), order).ret

\* C8 amended: the same, for the states whose position is not on the side
\* opposite to the order (not short for a buy, not long for a sell)
C8_RiskMonotoneSameSide ==
    \A order \in CheckOrderChoices, p \in PositionChoices :
        (/\ Abs(p) > Abs(PositionOf(arm, order.symbol))
         /\ IF order.is_buy THEN p >= 0 ELSE p <= 0
         /\ ~check_order(arm, order).ret)
            => ~check_order(WithPosition(arm, order.symbol, p), order).ret

\* a buy of 1000 was refused at position 500 under a net limit of 1000
C8_Witness ==
    /\ last_check.valid
    /\ last_check.configured
    /\ last_check.order = [symbol |-> "AAPL", quantity |-> 1000, is_buy |-> TRUE]
    /\ ~last_check.ret
    /\ PositionOf(arm, "AAPL") = 500
    /\ "AAPL" \in DOMAIN arm.risk_limits_
    /\ arm.risk_limits_["AAPL"].max_net_position = 1000
    /\ ~check_order(arm, last_check.order).ret

(***************************************************************************)
(* MarketMaker.  Prices are in cents, the factors that multiply the mid    *)
(* price in ten-thousandths, spread_percentage in ten-thousandths,         *)
(* inventory_skew_factor and level_spacing in tenths, the values of the    *)
(* volatility estimator in hundredths.                                     *)
(***************************************************************************)
\* n / d rounded half away from zero (std::round), for d > 0
RoundDiv(n, d) ==
    IF n >= 0 THEN (2 * n + d) \div (2 * d) ELSE -((2 * (-n) + d) \div (2 * d))

\* MarketMaker::round_to_tick of the price n / d
round_to_tick(n, d, tick_size) == RoundDiv(n, d * tick_size) * tick_size

RECURSIVE Pow2(_)
Pow2(l) == IF l = 0 THEN 1 ELSE 2 * Pow2(l - 1)

\* double mid_price = (market_quote.bid + market_quote.ask) / 2.0
MidPrice(quote) == (quote.bid + quote.ask) \div 2

\* inventory_ratio * params.inventory_skew_factor, in ten-thousandths
SkewTerm(params, position) ==
    TruncDiv(position * params.inventory_skew_factor * 1000,
             params.base_position_size)

\* adjusted_spread = spread_percentage * (1 + inventory_ratio * skew * vol)
AdjustedSpread(params, position, vol) ==
    TruncDiv(params.spread_percentage
                 * (params.base_position_size * 1000
                      + position * params.inventory_skew_factor * vol),
             params.base_position_size * 1000)

\* mutant: the deeper levels come closer to the mid price
LevelMultiplier_descending(params, level) == 10 - level * params.level_spacing

\* level_multiplier = 1.0 + level * level_spacing, in tenths
LevelMultiplier(params, level) == 10 + level * params.level_spacing

\* bid_price of a level
BidPrice(params, mid_price, position, vol, level) ==
    round_to_tick(
        mid_price * (10000
                       - TruncDiv(AdjustedSpread(params, position, vol)
                                      * LevelMultiplier(params, level), 10)
                       + SkewTerm(params, position)),
        10000, params.min_tick_size)

\* ask_price of a level
AskPrice(params, mid_price, position, vol, level) ==
    round_to_tick(
        mid_price * (10000
                       + TruncDiv(AdjustedSpread(params, position, vol)
                                      * LevelMultiplier(params, level), 10)
                       + SkewTerm(params, position)),
        10000, params.min_tick_size)

\* mutant: every level quotes the base size
OrderQuantity_flat(params, level) == params.base_position_size

\* base_size = base_position_size / pow(2, level), and order.quantity = size
\* converts the double to size_t, which drops the fraction
OrderQuantity(params, level) == params.base_position_size \div Pow2(level)

\* the calls submit_maker_order(symbol, is_buy, price, size) of one
\* update_quotes, in the order the loop makes them
RECURSIVE Ladder(_, _, _, _, _)
Ladder(params, mid_price, position, vol, level) ==
    IF level >= params.levels THEN << >>
    ELSE << [is_buy |-> TRUE, level |-> level,
             price |-> BidPrice(params, mid_price, position, vol, level),
             quantity |-> OrderQuantity(params, level)],
            [is_buy |-> FALSE, level |-> level,
             price |-> AskPrice(params, mid_price, position, vol, level),
             quantity |-> OrderQuantity(params, level)] >>
         \o Ladder(params, mid_price, position, vol, level + 1)

\* std::to_string of a counter value
DigitChars == << "0", "1", "2", "3", "4", "5", "6", "7", "8", "9" >>

RECURSIVE to_string(_)
to_string(n) ==
    IF n < 10 THEN DigitChars[n + 1]
    ELSE to_string(n \div 10) \o DigitChars[(n % 10) + 1]

\* mutant: the counter is read and not incremented
generate_order_id_no_increment(counter) ==
    [id |-> "MM_" \o to_string(counter), counter |-> counter]

\* MarketMaker::generate_order_id: "MM_" + std::to_string(order_counter++)
generate_order_id(counter) ==
    [id |-> "MM_" \o to_string(counter), counter |-> counter + 1]

(*-------------------------- VolatilityEstimator --------------------------*)
\* volatility_estimators_[symbol] value-initialises a missing entry
NewVolatilityEstimator ==
    [returns |-> << >>, window_size |-> 0, current_volatility |-> 0]

\* sqrt((sum_sq / size) - (mean * mean)) over the deque
RollingVolatility(values) ==
    LET mean == SumSeq(values) \div Len(values)
    IN ISqrt((SumSqSeq(values) \div Len(values)) - mean * mean)

\* VolatilityEstimator::update(price): the deque called returns receives
\* the log-return against its last element and then the price itself
VolatilityEstimator_update(e, price) ==
    IF e.returns # << >>
    THEN LET ret == TruncDiv(LogMilli(price) - LogMilli(e.returns[Len(e.returns)]), 10)
             with_return == Append(e.returns, ret)
             kept == IF Len(with_return) > e.window_size THEN Tail(with_return) ELSE with_return
         IN [e EXCEPT !.returns = Append(kept, price),
                      !.current_volatility = RollingVolatility(kept)]
    ELSE [e EXCEPT !.returns = Append(e.returns, price)]

(*------------------------------ MarketMaker -----------------------------*)
\* the parameters configure_symbol may be given for a symbol; every set has
\* base_position_size > 0
ParamChoices(symbol) ==
    IF symbol = "AAPL"
    THEN { [spread_percentage |-> 10, base_position_size |-> 100,
            inventory_skew_factor |-> 0, min_tick_size |-> 1,
            levels |-> 3, level_spacing |-> 5],
           [spread_percentage |-> 10, base_position_size |-> 100,
            inventory_skew_factor |-> 2, min_tick_size |-> 1,
            levels |-> 2, level_spacing |-> 5] }
    ELSE { [spread_percentage |-> 10, base_position_size |-> 25,
            inventory_skew_factor |-> 0, min_tick_size |-> 100,
            levels |-> 2, level_spacing |-> 5] }

VARIABLES
    \* MarketMaker: symbol_params_, inventory_, active_orders_,
    \* volatility_estimators_, maker_mutex_ (with the thread that holds it)
    mm,
    \* static std::atomic<uint64_t> order_counter of generate_order_id
    order_counter,
    \* the thread that calls update_quotes, and the calls it has made
    maker, mm_updates,
    \* history: the update_quotes call in progress or made last, and every
    \* order id issued with the counter value it was made from
    mm_last, ids_issued

mmvars == << mm, order_counter, maker, mm_updates, mm_last, ids_issued >>

NewMarketMaker ==
    [symbol_params_ |-> EmptyMap, inventory_ |-> EmptyMap,
     active_orders_ |-> EmptyMap, volatility_estimators_ |-> EmptyMap,
     maker_mutex_ |-> "free"]

\* inventory_[symbol] value-initialises a missing entry
NewInventoryMetrics ==
    [current_position |-> 0, dollar_exposure |-> 0, vwap_price |-> 0]

NoUpdate == [valid |-> FALSE]

InitMM ==
    /\ mm = NewMarketMaker
    /\ order_counter = 0
    /\ maker = NewProducer
                  @@ [symbol |-> "", pending |-> << >>, order |-> NoItem,
                      returned |-> "none"]
    /\ mm_updates = 0
    /\ mm_last = NoUpdate
    /\ ids_issued = << >>

\* MarketMaker::configure_symbol, one step under maker_mutex_
configure_symbol(m, symbol, params) ==
    [m EXCEPT !.symbol_params_ = MapPut(@, symbol, params)]

\* the order ids of a list of orders
OrderIds(orders) == [i \in 1 .. Len(orders) |-> orders[i].order_id]

\* mutant: the cancels are issued and the list is kept
cancel_existing_orders_keeps_list(m, symbol) ==
    IF symbol \in DOMAIN m.active_orders_
    THEN [m |-> m, cancels |-> OrderIds(m.active_orders_[symbol])]
    ELSE [m |-> m, cancels |-> << >>]

\* MarketMaker::cancel_existing_orders: one cancel_order call for each
\* order of the list of the symbol, then the list is cleared
cancel_existing_orders(m, symbol) ==
    IF symbol \in DOMAIN m.active_orders_
    THEN [m |-> [m EXCEPT !.active_orders_[symbol] = << >>],
          cancels |-> OrderIds(m.active_orders_[symbol])]
    ELSE [m |-> m, cancels |-> << >>]

\* MarketMaker::update_quotes from its start to the loop over the levels,
\* for a symbol that has parameters
update_quotes_begin(m, symbol, market_quote) ==
    LET params == m.symbol_params_[symbol]
        inventory == MapTouch(m.inventory_, symbol, NewInventoryMetrics)
        estimators ==
            MapPut(m.volatility_estimators_, symbol,
                   VolatilityEstimator_update(
                       MapTouch(m.volatility_estimators_, symbol,
                                NewVolatilityEstimator)[symbol],
                       MidPrice(market_quote)))
        current_vol == estimators[symbol].current_volatility
        position == inventory[symbol].current_position
        c == cancel_existing_orders(
                 [m EXCEPT !.inventory_ = inventory,
                           !.volatility_estimators_ = estimators], symbol)
    IN [m |-> c.m, cancels |-> c.cancels,
        position |-> position, current_vol |-> current_vol,
        pending |-> Ladder(params, MidPrice(market_quote), position,
                           current_vol, 0)]

\* mutant: the inventory entry is touched before the symbol is looked up
update_quotes_entry_touches_inventory(m, symbol, market_quote) ==
    IF symbol \notin DOMAIN m.symbol_params_
    THEN [configured |-> FALSE,
          m |-> [m EXCEPT !.inventory_ =
                    MapTouch(@, symbol, NewInventoryMetrics)],
          cancels |-> << >>, position |-> 0, current_vol |-> 0,
          pending |-> << >>]
    ELSE [configured |-> TRUE] @@ update_quotes_begin(m, symbol, market_quote)

\* MarketMaker::update_quotes from its start to the loop over the levels:
\* if (params_it == symbol_params_.end()) return;
update_quotes_entry(m, symbol, market_quote) ==
    IF symbol \notin DOMAIN m.symbol_params_
    THEN [configured |-> FALSE, m |-> m, cancels |-> << >>,
          position |-> 0, current_vol |-> 0, pending |-> << >>]
    ELSE [configured |-> TRUE] @@ update_quotes_begin(m, symbol, market_quote)

MM_configure_symbol ==
    /\ mm.maker_mutex_ = "free"
    /\ \E symbol \in Symbols : \E params \in ParamChoices(symbol) :
          mm' = configure_symbol(mm, symbol, params)
    /\ UNCHANGED << order_counter, maker, mm_updates, mm_last, ids_issued >>

\* update_quotes(symbol, market_quote) is called: it takes maker_mutex_,
\* returns at once for a symbol without parameters, and otherwise reaches
\* the loop over the levels
MM_update_quotes_call ==
    /\ maker.pc = "idle"
    /\ mm.maker_mutex_ = "free"
    /\ mm_updates < MaxUpdates
    /\ mm_updates' = mm_updates + 1
    /\ \E market_quote \in FeedQuotes(mm_updates + 1) :
          LET symbol == market_quote.symbol
              e == update_quotes_entry(mm, symbol, market_quote)
          IN /\ mm' = IF e.configured
                      THEN [e.m EXCEPT !.maker_mutex_ = "maker"] ELSE e.m
             /\ maker' = IF e.configured
                         THEN [maker EXCEPT !.pc = "mm_submit",
                                            !.symbol = symbol,
                                            !.pending = e.pending,
                                            !.returned = "none"]
                         ELSE [maker EXCEPT !.returned = "void"]
             /\ mm_last' =
                   [valid |-> TRUE, symbol |-> symbol,
                    configured |-> e.configured,
                    before |-> mm, counter_before |-> order_counter,
                    market_quote |-> market_quote,
                    position |-> e.position, current_vol |-> e.current_vol,
                    risk_position |-> MapGet(rm.current_positions_, symbol),
                    cancels |-> e.cancels, created |-> << >>,
                    returned |-> ~e.configured]
    /\ UNCHANGED << order_counter, ids_issued >>

\* the loop has run through its levels: update_quotes returns and the
\* lock_guard releases maker_mutex_
MM_update_quotes_return ==
    /\ maker.pc = "mm_submit"
    /\ maker.pending = << >>
    /\ mm' = [mm EXCEPT !.maker_mutex_ = "free"]
    /\ maker' = [maker EXCEPT !.pc = "idle", !.returned = "void"]
    /\ mm_last' = [mm_last EXCEPT !.returned = TRUE]
    /\ UNCHANGED << order_counter, mm_updates, ids_issued >>

\* active_orders_[symbol].push_back(order)
record_active(m, symbol, order) ==
    [m EXCEPT !.active_orders_ =
        MapPut(@, symbol, Append(MapTouch(@, symbol, << >>)[symbol], order))]

\* submit_maker_order(symbol, is_buy, price, size) up to its risk check: the
\* Order is filled in, generate_order_id() gives its id, and
\* risk_manager_.check_order(order) decides whether it goes on
MM_submit_maker_order ==
    /\ maker.pc = "mm_submit"
    /\ maker.pending # << >>
    /\ LET rung == Head(maker.pending)
           g == generate_order_id(order_counter)
           order == [order_id |-> g.id, symbol |-> maker.symbol,
                     price |-> rung.price, quantity |-> rung.quantity,
                     is_buy |-> rung.is_buy]
           c == RiskManager_check_order(rm, order)
       IN /\ order_counter' = g.counter
          /\ ids_issued' = Append(ids_issued,
                                  [order_id |-> g.id, counter |-> order_counter])
          /\ rm' = c.r
          /\ mm_last' = [mm_last EXCEPT !.created =
                            Append(@, [order |-> order, level |-> rung.level,
                                       accepted |-> c.ret])]
          /\ maker' = IF c.ret
                      THEN [maker EXCEPT !.pc = "om_check", !.order = order]
                      ELSE [maker EXCEPT !.pending = Tail(@), !.order = order]
    /\ UNCHANGED << mm, mm_updates >>

\* order_manager_.submit_order(order), called by submit_maker_order: the
\* order manager asks risk_manager_.check_order(order) itself
MM_om_check ==
    /\ maker.pc = "om_check"
    /\ LET c == RiskManager_check_order(rm, maker.order)
           t == submit_order(maker, c.ret)
       IN /\ rm' = c.r
          /\ maker' = IF t.pc = "idle" THEN [t EXCEPT !.pc = "mm_record"] ELSE t
    /\ UNCHANGED << mm, order_counter, mm_updates, mm_last, ids_issued >>

\* submit_order inside order_queue_.push(order), its result discarded
MM_om_push ==
    /\ maker.pc \in PushPcs
    /\ LET r == push_step(om.order_queue_, maker)
           done == r.t.pc = "push_done"
       IN /\ om' = [om EXCEPT !.order_queue_ = r.q]
          /\ maker' = IF done
                      THEN [r.t EXCEPT !.pc = "mm_record", !.returned = "void"]
                      ELSE r.t
          /\ orders_enqueued' = IF done /\ r.t.ret
                                THEN Append(orders_enqueued, maker.item)
                                ELSE orders_enqueued
          /\ orders_dropped' = IF done /\ ~r.t.ret THEN orders_dropped + 1
                               ELSE orders_dropped
    /\ UNCHANGED << mm, order_counter, mm_updates, mm_last, ids_issued >>

\* submit_order has returned: active_orders_[symbol].push_back(order), and
\* the loop goes on with its next call
MM_record_active ==
    /\ maker.pc = "mm_record"
    /\ mm' = record_active(mm, maker.symbol, maker.order)
    /\ maker' = [maker EXCEPT !.pc = "mm_submit", !.pending = Tail(@)]
    /\ UNCHANGED << order_counter, mm_updates, mm_last, ids_issued >>

\* what C23 says a calculator holds after n calls of update(price)
WindowCounts(c, n) ==
    /\ Len(c.price_history) = Min(n, c.window_size)
    /\ Len(c.returns)
          = Min(IF n >= 1 THEN n - 1 ELSE 0, c.window_size - 1)

\* C23: every volatility calculator of the risk engine, also one created on
\* the first update_position or check_order for its symbol, holds after n
\* calls of update(price) min(n, window_size) prices and
\* min(max(n - 1, 0), window_size - 1) returns, and calculate_volatility
\* returns 0 exactly as long as it holds fewer than two returns
C23_WindowSizes ==
    \A symbol \in DOMAIN arm.volatility_calculators_ :
        LET c == arm.volatility_calculators_[symbol]
        IN /\ WindowCounts(c, Len(PricesFed(trades_log, symbol)))
           /\ (calculate_volatility(c) = 0) <=> (Len(c.returns) < 2)

\* C19: with limits configured, and when the only position changes are
\* full fills of orders for which check_order returned true, each filled at
\* most once, |position| <= max_net_position for every symbol in every
\* reachable state, also while several accepted orders are out at once
C19_PositionWithinLimit ==
    \A symbol \in DOMAIN arm.risk_limits_ :
        Abs(PositionOf(arm, symbol)) <= arm.risk_limits_[symbol].max_net_position

\* a fill reported to the risk manager between two update_quotes calls
MM_fill ==
    /\ maker.pc = "idle"
    /\ RM_update_position

(***************************************************************************)
(* Claims about the market maker.                                          *)
(***************************************************************************)
\* the active-orders list of a symbol; a symbol without an entry has none
ActiveOf(m, symbol) ==
    IF symbol \in DOMAIN m.active_orders_ THEN m.active_orders_[symbol] ELSE << >>

\* the orders created so far by the update_quotes call made last
CreatedOrders == { mm_last.created[i].order : i \in 1 .. Len(mm_last.created) }

\* C14: an update_quotes call for a configured symbol issues one cancel for
\* each order that was in the active-orders list of the symbol, in the order
\* of the list, and clears the list before it submits; from then on the list
\* holds only orders created in this call, at most 2 * levels of them, and
\* the lists of the other symbols are as they were
C14_CancelThenRequote ==
    (mm_last.valid /\ mm_last.configured) =>
        /\ mm_last.cancels = OrderIds(ActiveOf(mm_last.before, mm_last.symbol))
        /\ \A i \in 1 .. Len(ActiveOf(mm, mm_last.symbol)) :
              ActiveOf(mm, mm_last.symbol)[i] \in CreatedOrders
        /\ Len(ActiveOf(mm, mm_last.symbol))
              <= 2 * mm_last.before.symbol_params_[mm_last.symbol].levels
        /\ \A other \in Symbols \ {mm_last.symbol} :
              ActiveOf(mm, other) = ActiveOf(mm_last.before, other)

\* a second update_quotes of a symbol has cancelled the orders of the first
\* and recorded its own
C14_Witness ==
    /\ mm_last.valid
    /\ mm_last.configured
    /\ mm_last.returned
    /\ Len(mm_last.cancels) >= 2
    /\ Len(ActiveOf(mm, mm_last.symbol)) >= 2
    /\ mm_last.symbol = "AAPL"

\* the parameters the update_quotes call made last worked with
LastParams == mm_last.before.symbol_params_[mm_last.symbol]

\* the loop of update_quotes creates, level after level, a bid and then an ask
LadderShape ==
    /\ \A i \in 1 .. Len(mm_last.created) :
          /\ mm_last.created[i].level = (i - 1) \div 2
          /\ mm_last.created[i].order.is_buy = (i % 2 = 1)
          /\ mm_last.created[i].order.symbol = mm_last.symbol
    /\ mm_last.returned => Len(mm_last.created) = 2 * LastParams.levels

LadderParams ==
    { [spread_percentage |-> sp, base_position_size |-> 100,
       inventory_skew_factor |-> sk, min_tick_size |-> t,
       levels |-> 3, level_spacing |-> ls] :
         sp \in {10, 100}, sk \in {0, 20}, t \in {1, 100}, ls \in {-5, 0, 5} }

LadderPositions == {-100, 0, 50}

LadderVolatilities == {0, 100, 5000}

LadderMids == {10000, 10050, 10202}

\* bids do not rise and asks do not fall from one level to the next
LadderOrdered(params, mid_price, position, vol) ==
    \A l \in 0 .. params.levels - 2 :
        /\ BidPrice(params, mid_price, position, vol, l + 1)
              <= BidPrice(params, mid_price, position, vol, l)
        /\ AskPrice(params, mid_price, position, vol, l + 1)
              >= AskPrice(params, mid_price, position, vol, l)

\* the first level lies around the mid price
LadderBrackets(params, mid_price, position, vol) ==
    /\ BidPrice(params, mid_price, position, vol, 0) <= mid_price
    /\ mid_price <= AskPrice(params, mid_price, position, vol, 0)

\* the mid price is a whole number of half ticks
OnHalfTick(params, mid_price) == (2 * mid_price) % params.min_tick_size = 0

\* the prices of the orders created by the update_quotes call made last
CreatedBids ==
    [l \in 0 .. (Len(mm_last.created) \div 2) - 1 |->
        mm_last.created[2 * l + 1].order.price]

CreatedAsks ==
    [l \in 0 .. (Len(mm_last.created) \div 2) - 1 |->
        mm_last.created[2 * l + 2].order.price]

CreatedOrdered ==
    \A l \in 0 .. (Len(mm_last.created) \div 2) - 2 :
        /\ CreatedBids[l + 1] <= CreatedBids[l]
        /\ CreatedAsks[l + 1] >= CreatedAsks[l]

CreatedBrackets ==
    Len(mm_last.created) >= 2 =>
        /\ CreatedBids[0] <= MidPrice(mm_last.market_quote)
        /\ MidPrice(mm_last.market_quote) <= CreatedAsks[0]

\* the ladder is ordered and lies around the mid price for every allowed
\* parameter set, position and volatility
LadderOrderedForAll ==
    \A params \in LadderParams, mid_price \in LadderMids,
       position \in LadderPositions, vol \in LadderVolatilities :
        /\ LadderOrdered(params, mid_price, position, vol)
        /\ position = 0 => LadderBrackets(params, mid_price, position, vol)

\* the same, for a level spacing and an adjusted spread that are not
\* negative, and around a mid price on the half-tick grid
LadderOrderedForNonNegative ==
    \A params \in LadderParams, mid_price \in LadderMids,
       position \in LadderPositions, vol \in LadderVolatilities :
        /\ (params.level_spacing >= 0
              /\ AdjustedSpread(params, position, vol) >= 0)
             => LadderOrdered(params, mid_price, position, vol)
        /\ (position = 0 /\ OnHalfTick(params, mid_price))
             => LadderBrackets(params, mid_price, position, vol)

\* C16 as stated: for all allowed parameters and any position and
\* volatility the bids of one update_quotes call do not rise with the level,
\* the asks do not fall, and at inventory ratio 0 the first level lies around
\* the mid price
C16_LadderOrdered ==
    /\ LadderOrderedForAll
    /\ (mm_last.valid /\ mm_last.configured) =>
          /\ CreatedOrdered
          /\ mm_last.position = 0 => CreatedBrackets

\* C16 amended: the ordering holds when level_spacing >= 0 and the adjusted
\* spread is not negative, and the first level lies around the mid price when
\* the inventory ratio is 0 and the mid price is a whole number of half ticks
C16_LadderOrderedNonNegative ==
    /\ LadderOrderedForNonNegative
    /\ (mm_last.valid /\ mm_last.configured) =>
          /\ (LastParams.level_spacing >= 0
                /\ AdjustedSpread(LastParams, mm_last.position,
                                  mm_last.current_vol) >= 0)
               => CreatedOrdered
          /\ (mm_last.position = 0
                /\ OnHalfTick(LastParams, MidPrice(mm_last.market_quote)))
               => CreatedBrackets

\* update_quotes has returned the three-level ladder around 100.00
C16_Witness ==
    /\ mm_last.valid /\ mm_last.configured /\ mm_last.returned
    /\ Len(mm_last.created) = 6
    /\ MidPrice(mm_last.market_quote) = 10000
    /\ CreatedBids = [l \in 0 .. 2 |-> 9990 - 5 * l]
    /\ CreatedAsks = [l \in 0 .. 2 |-> 10010 + 5 * l]

\* the parameters of the inventory-skew scenario: spread 0.001, base size
\* 100, skew factor 0.2, tick 0.01, three levels, level spacing 0.5
SkewScenarioParams ==
    [spread_percentage |-> 10, base_position_size |-> 100,
     inventory_skew_factor |-> 2, min_tick_size |-> 1,
     levels |-> 3, level_spacing |-> 5]

\* update_quotes works with the position that the fills reported to the risk
\* manager have produced
PositionUsedIsFilledPosition ==
    (mm_last.valid /\ mm_last.configured) =>
        mm_last.position = mm_last.risk_position

\* C17: with position +50, base size 100, skew factor 0.2, volatility 0 and
\* mid price 100.00 the adjusted spread is 0.001 and every bid and ask is
\* 10.00 lower than the price quoted with no inventory; and the position
\* update_quotes works with is the signed position that the fills of the
\* symbol have produced
C17_LongInventoryShiftsDown ==
    /\ AdjustedSpread(SkewScenarioParams, 50, 0) = 10
    /\ \A level \in 0 .. SkewScenarioParams.levels - 1 :
          /\ BidPrice(SkewScenarioParams, 10000, 50, 0, level)
                = BidPrice(SkewScenarioParams, 10000, 0, 0, level) - 1000
          /\ AskPrice(SkewScenarioParams, 10000, 50, 0, level)
                = AskPrice(SkewScenarioParams, 10000, 0, 0, level) - 1000
    /\ PositionUsedIsFilledPosition

C20_NoLockAcrossPush ==
    ~(maker.pc \in PushPcs /\ mm.maker_mutex_ = "maker")

(***************************************************************************)
(* Claims about the two pipelines.                                         *)
(***************************************************************************)
Range(seq) == { seq[i] : i \in 1 .. Len(seq) }

\* C5: submit_order places an order on the order queue only if check_order
\* returned true for it during that call: every order that is being pushed,
\* is queued, was enqueued or was handed to process_order has a logged
\* check_order answer of true, so a rejected order never gets there.
C5_EnqueuedOnlyIfCheckPassed ==
    /\ \A o \in Range(orders_enqueued)
                  \cup Range(QueueContents(om.order_queue_))
                  \cup Range(orders_forwarded) :
          o.order_id \in DOMAIN risk_log /\ risk_log[o.order_id].ret
    /\ submitter.pc \in PushPcs
          => (submitter.order.order_id \in DOMAIN risk_log
              /\ risk_log[submitter.order.order_id].ret)

\* a buy of 20 was rejected at position +90 under max_position 100,
\* submit_order has returned without enqueuing it, and an accepted order
\* went through to process_order
C5_Witness ==
    /\ submitter.pc = "idle"
    /\ Len(orders_forwarded) >= 1
    /\ \E id \in DOMAIN risk_log :
          /\ ~risk_log[id].ret
          /\ risk_log[id].order.is_buy
          /\ risk_log[id].order.quantity = 20
          /\ risk_log[id].position = 90
          /\ risk_log[id].configured
          /\ risk_log[id].max_position = 100
          /\ \A o \in Range(orders_enqueued) : o.order_id # id

\* C6: every order the worker hands to process_order was enqueued by
\* submit_order before, is handed over at most once, and the orders are
\* handed over in the order in which they were enqueued, under every
\* interleaving of the submitting thread and the worker.
C6_ForwardedOnceInOrder ==
    /\ IsPrefix(orders_forwarded, orders_enqueued)
    /\ \A i, j \in 1 .. Len(orders_forwarded) :
          i # j => orders_forwarded[i].order_id # orders_forwarded[j].order_id

\* two orders were handed over while the worker is popping the third and the
\* submitting thread is publishing the fourth
C6_Witness ==
    /\ Len(orders_forwarded) >= 2
    /\ om_worker.pc = "pop_store_head"
    /\ submitter.pc = "push_store_tail"

\* C10: for every quote the worker pops, the order book of its symbol exists
\* (created on first observation) and is updated, and update_quotes(symbol,
\* quote) is called, in the order in which on_quote accepted the quotes.
C10_PoppedQuoteUpdatesBookAndMaker ==
    /\ IsPrefix(quotes_processed, quotes_accepted)
    /\ book_updates = quotes_processed
    /\ \A i \in 1 .. Len(quotes_processed) :
          quotes_processed[i].symbol \in DOMAIN md.order_books_
    /\ update_quotes_log =
          [i \in 1 .. Len(quotes_processed) |->
              << quotes_processed[i].symbol, quotes_processed[i] >>]

\* the ids of the orders that push has placed on the order queue
EnqueuedIds == { o.order_id : o \in Range(orders_enqueued) }

\* C21: every order in the active-orders list of a symbol has been placed on
\* the queue of the order manager: an order the order manager rejects in its
\* own risk check, or drops because the queue is full, is not recorded as
\* active, and no cancel is issued for it later
C21_ActiveOrdersWereEnqueued ==
    /\ \A symbol \in Symbols : \A i \in 1 .. Len(ActiveOf(mm, symbol)) :
          ActiveOf(mm, symbol)[i].order_id \in EnqueuedIds
    /\ mm_last.valid =>
          \A i \in 1 .. Len(mm_last.cancels) : mm_last.cancels[i] \in EnqueuedIds

(***************************************************************************)
(* Specifications.  Each one runs the threads of one component and leaves  *)
(* the other components as constructed.                                    *)
(***************************************************************************)
vars == << qvars, mdvars, omvars, riskvars, mmvars >>

Init == InitQueue /\ InitMD /\ InitOM /\ InitRisk /\ InitMM

\* the stand-alone queue with its two threads
NextQueue ==
    \/ Q_push_call /\ UNCHANGED << mdvars, omvars, riskvars, mmvars >>
    \/ Q_push_step /\ UNCHANGED << mdvars, omvars, riskvars, mmvars >>
    \/ Q_pop_call /\ UNCHANGED << mdvars, omvars, riskvars, mmvars >>
    \/ Q_pop_step /\ UNCHANGED << mdvars, omvars, riskvars, mmvars >>

SpecQueue == Init /\ [][NextQueue]_vars

\* the market-data handler with its feed, worker and controlling threads
NextMD ==
    \/ MD_start /\ UNCHANGED << qvars, omvars, riskvars, mmvars >>
    \/ MD_stop_call /\ UNCHANGED << qvars, omvars, riskvars, mmvars >>
    \/ MD_stop_join /\ UNCHANGED << qvars, omvars, riskvars, mmvars >>
    \/ MD_on_quote_call /\ UNCHANGED << qvars, omvars, riskvars, mmvars >>
    \/ MD_on_quote_step /\ UNCHANGED << qvars, omvars, riskvars, mmvars >>
    \/ MD_worker_loop /\ UNCHANGED << qvars, omvars, riskvars, mmvars >>
    \/ MD_worker_pop /\ UNCHANGED << qvars, omvars, riskvars, mmvars >>
    \/ MD_worker_process /\ UNCHANGED << qvars, omvars, riskvars, mmvars >>

SpecMD == Init /\ [][NextMD]_vars

\* a step of the worker thread of the market-data handler
MDWorkerStep ==
    (MD_worker_loop \/ MD_worker_pop \/ MD_worker_process)
        /\ UNCHANGED << qvars, omvars, riskvars, mmvars >>

\* join() returning to the thread inside stop()
MDJoinStep == MD_stop_join /\ UNCHANGED << qvars, omvars, riskvars, mmvars >>

\* the scheduler keeps running a thread that can take a step: the worker,
\* and the caller of stop() once the thread it joins has exited
\* (every such step changes the position of its thread, which is what the
\* subscripts name)
SpecMDFair ==
    SpecMD /\ WF_<< md_worker.pc >>(MDWorkerStep) /\ WF_<< md_ctl >>(MDJoinStep)

\* the order manager with its risk manager and its submitting, worker and
\* controlling threads
NextOM ==
    \/ RM_set_risk_limits /\ UNCHANGED << qvars, mdvars, riskvars, mmvars >>
    \/ RM_update_position /\ UNCHANGED << qvars, mdvars, riskvars, mmvars >>
    \/ OM_start /\ UNCHANGED << qvars, mdvars, riskvars, mmvars >>
    \/ OM_stop_call /\ UNCHANGED << qvars, mdvars, riskvars, mmvars >>
    \/ OM_stop_join /\ UNCHANGED << qvars, mdvars, riskvars, mmvars >>
    \/ OM_submit_call /\ UNCHANGED << qvars, mdvars, riskvars, mmvars >>
    \/ OM_submit_check /\ UNCHANGED << qvars, mdvars, riskvars, mmvars >>
    \/ OM_submit_push /\ UNCHANGED << qvars, mdvars, riskvars, mmvars >>
    \/ OM_worker_loop /\ UNCHANGED << qvars, mdvars, riskvars, mmvars >>
    \/ OM_worker_pop /\ UNCHANGED << qvars, mdvars, riskvars, mmvars >>
    \/ OM_worker_process /\ UNCHANGED << qvars, mdvars, riskvars, mmvars >>

SpecOM == Init /\ [][NextOM]_vars

\* the AdvancedRiskManager with the threads that configure it, ask it about
\* orders and report trades to it
NextRisk ==
    \/ ARM_set_risk_limits /\ UNCHANGED << qvars, mdvars, omvars, mmvars >>
    \/ ARM_check_order /\ UNCHANGED << qvars, mdvars, omvars, mmvars >>
    \/ ARM_update_position /\ UNCHANGED << qvars, mdvars, omvars, mmvars >>

SpecRisk == Init /\ [][NextRisk]_vars

\* the AdvancedRiskManager with limits configured once per symbol, orders
\* sent out when check_order accepts them, and each filled in full at most
\* once
NextFills ==
    \/ Fills_set_risk_limits /\ UNCHANGED << qvars, mdvars, omvars, mmvars >>
    \/ Fills_check_order /\ UNCHANGED << qvars, mdvars, omvars, mmvars >>
    \/ Fills_update_position /\ UNCHANGED << qvars, mdvars, omvars, mmvars >>

SpecFills == Init /\ [][NextFills]_vars

\* the market maker quoting through the RiskManager and the OrderManager;
\* the order manager has not been started, so the order queue only fills
omrest == << submitter, om_ctl, orders_submitted, risk_log >>

NextMM ==
    \/ MM_configure_symbol /\ UNCHANGED << qvars, mdvars, omvars, riskvars >>
    \/ MM_update_quotes_call /\ UNCHANGED << qvars, mdvars, omvars, riskvars >>
    \/ MM_update_quotes_return /\ UNCHANGED << qvars, mdvars, omvars, riskvars >>
    \/ MM_submit_maker_order
          /\ UNCHANGED << qvars, mdvars, riskvars, omrest, om, om_worker,
                          orders_enqueued, orders_dropped, orders_forwarded,
                          rm_fills >>
    \/ MM_om_check
          /\ UNCHANGED << qvars, mdvars, riskvars, omrest, om, om_worker,
                          orders_enqueued, orders_dropped, orders_forwarded,
                          rm_fills >>
    \/ MM_om_push
          /\ UNCHANGED << qvars, mdvars, riskvars, omrest, rm, om_worker,
                          orders_forwarded, rm_fills >>
    \/ MM_record_active /\ UNCHANGED << qvars, mdvars, omvars, riskvars >>
    \/ RM_set_risk_limits /\ UNCHANGED << qvars, mdvars, riskvars, mmvars >>
    \/ MM_fill /\ UNCHANGED << qvars, mdvars, riskvars, mmvars >>

SpecMM == Init /\ [][NextMM]_vars

(***************************************************************************)
(* Claims stated over steps.                                               *)
(***************************************************************************)
\* C9: an enqueue that fails on a full queue is observable: on_quote
\* increments a dropped-quote counter of the handler, submit_order counts the
\* dropped order or reports the failure to its caller.  A counter or a
\* report needs some member of the component to change, or the call to
\* return something other than void.
C9_FullQueueIsCounted ==
    [][ /\ (quotes_dropped' # quotes_dropped)
            => (md' # md \/ feed'.returned # "void")
        /\ (orders_dropped' # orders_dropped)
            => (om' # om \/ submitter'.returned # "void") ]_vars

\* C12: once stop() has been called on_quote is a no-op: a quote enters
\* the queue only through an on_quote call that began while running_ was
\* still true
C12_NoPushAfterStop ==
    [][ (quotes_accepted' # quotes_accepted) => feed.running_at_call ]_vars

C13_UnconfiguredIsInert ==
    [][ (mm_updates' # mm_updates
            /\ mm_last'.symbol \notin DOMAIN mm.symbol_params_)
          => /\ mm' = mm
             /\ order_counter' = order_counter
             /\ ids_issued' = ids_issued
             /\ mm_last'.cancels = << >>
             /\ maker'.pc = "idle"
             /\ om' = om /\ rm' = rm ]_vars

\* update_quotes has returned for GOOGL, which has no parameters, after AAPL
\* has been quoted
C13_Witness ==
    /\ mm_last.valid
    /\ ~mm_last.configured
    /\ mm_last.symbol = "GOOGL"
    /\ mm_last.before = mm
    /\ "AAPL" \in DOMAIN mm.volatility_estimators_
    /\ "AAPL" \in DOMAIN mm.inventory_
    /\ order_counter > 0

\* the signed quantity of a trade
SignedQuantity(trade) == IF trade.is_buy THEN trade.quantity ELSE -trade.quantity

\* a trade against a position: it reduces it, closes it or crosses zero
Reduces(position, trade) ==
    /\ position * SignedQuantity(trade) < 0
    /\ trade.quantity < Abs(position)

Closes(position, trade) ==
    /\ position # 0
    /\ position + SignedQuantity(trade) = 0

Crosses(position, trade) ==
    /\ position * SignedQuantity(trade) < 0
    /\ trade.quantity > Abs(position)

\* C22: update_position treats closing and crossing trades by themselves: a
\* trade that reduces |position| without crossing zero leaves vwap as it was
\* and adds the realized difference to realized_pnl; a trade that crosses
\* zero makes vwap the price of the trade; a trade that brings the position
\* to zero divides nothing by the zero position, so vwap stays a finite number
C22_ClosingAndCrossingTrades ==
    [][ (trades_log' # trades_log) =>
          LET trade == trades_log'[Len(trades_log')]
              old == MapTouch(arm.positions_, trade.symbol,
                              NewPositionTracker)[trade.symbol]
              new == arm'.positions_[trade.symbol]
          IN /\ Reduces(old.position, trade) =>
                  /\ new.vwap = old.vwap
                  /\ old.vwap.cls = "fin" =>
                        new.realized_pnl = old.realized_pnl
                            + (IF trade.is_buy THEN old.vwap.v - trade.price
                               ELSE trade.price - old.vwap.v) * trade.quantity
             /\ Crosses(old.position, trade) => new.vwap = Fin(trade.price)
             /\ Closes(old.position, trade) => new.vwap.cls = "fin" ]_vars

=========================================================================
